---- MODULE Spec2Model ----
(***************************************************************************)
(* The fake modem of src/src/fake_modem.c: a FreeRTOS task that reads      *)
(* UART2 one byte at a time, assembles lines in a 128 byte buffer and      *)
(* answers each line with a canned AT response, together with the peer on  *)
(* UART1 (main.c) that writes command bytes to it.                         *)
(*                                                                         *)
(* Bytes are the integers 0..255.  A C string is modelled with its NUL     *)
(* terminator: string functions read up to the first NUL, as in C.         *)
(***************************************************************************)
EXTENDS Integers, Sequences, FiniteSets, TLC

(* ---------------- program constants ---------------- *)

LINE_BUF_SIZE == 128

NUL == 0

CR == 13

LF == 10

\* The value of a char object that has not been assigned (line_buf and byte
\* are declared without an initializer).  It lies outside every char value.
Indeterminate == 256

\* The C string literals of fake_modem.c and main.c, with their terminating NUL.
STR_AT == <<65, 84, 0>>

STR_AT_CSQ == <<65, 84, 43, 67, 83, 81, 0>>

RESP_OK == <<13, 10, 79, 75, 13, 10, 0>>

RESP_CSQ == <<13, 10, 43, 67, 83, 81, 58, 32, 50, 48, 44, 57, 57, 13, 10, 79, 75, 13, 10, 0>>

RESP_ERROR == <<13, 10, 69, 82, 82, 79, 82, 13, 10, 0>>

CMD_AT == <<65, 84, 13, 10, 0>>

CMD_AT_CSQ == <<65, 84, 43, 67, 83, 81, 13, 10, 0>>

CMD_AT_UNKNOWN == <<65, 84, 43, 85, 78, 75, 78, 79, 87, 78, 13, 10, 0>>

(* ---------------- bounds of the model ---------------- *)

\* Longest line of the exhaustive family of short lines the peer may send first.
MaxShortLen == 2

\* Longest burst of one repeated body byte the peer may send first.
MaxRun == 260

\* Number of commands the driver loop of main.c sends.
MaxCmds == 3

\* Commands the driver loop sends when no other traffic came before it.
MaxLoopCmds == 7

(* ---------------- inputs ---------------- *)

\* Body bytes the peer draws from: NUL, space, '+', 'A', 'T', 'a', 't', 0xFF.
Alphabet == {0, 32, 43, 65, 84, 97, 116, 255}

\* Bytes a burst repeats: 'x' and NUL.
FillBytes == {120, 0}

\* Line endings the peer may put after its first line (none, one, two or three
\* terminator bytes).
Terms == {<<>>, <<CR>>, <<LF>>, <<CR, LF>>, <<LF, CR, LF>>}

ShortSeqs == UNION {[1..k -> Alphabet] : k \in 0..MaxShortLen}

Subst(s) == {[s EXCEPT ![i] = b] : i \in 1..Len(s), b \in Alphabet}

Insert(s) == {SubSeq(s, 1, i) \o <<b>> \o SubSeq(s, i + 1, Len(s)) : i \in 0..Len(s), b \in Alphabet}

Delete(s) == {SubSeq(s, 1, i - 1) \o SubSeq(s, i + 1, Len(s)) : i \in 1..Len(s)}

Edits(s) == {s} \cup Subst(s) \cup Insert(s) \cup Delete(s)

\* The text of a C string literal: its bytes before the terminating NUL.
Text(lit) == SubSeq(lit, 1, Len(lit) - 1)

\* The lines the peer may send first: every short line over Alphabet, every
\* line one edit away from "AT" and from "AT+CSQ", and "AT+UNKNOWN".
Lines == ShortSeqs \cup Edits(Text(STR_AT)) \cup Edits(Text(STR_AT_CSQ)) \cup {SubSeq(CMD_AT_UNKNOWN, 1, 10)}

(* ---------------- state ---------------- *)

VARIABLES line_buf, line_pos, byte, n, pc, rx, tx, acc, main_pc, started, wire, uread, replies, sent, preDone, burstByte, burstLen, run, body, terms, mark, gap, lines, dispatched, widx

\* line_buf, line_pos, byte, n : the locals of fake_modem_task
\* pc        : "off" (task not created), "recv" (at uart_read_bytes) or
\*             "write" (inside uart_write_bytes)
\* rx        : bytes that arrived at UART2 RX and are not yet read by the task
\* tx        : the payloads handed to uart_write_bytes on UART2 TX, in order
\* acc       : how many bytes of tx the UART2 transmitter has accepted
\* main_pc   : where app_main is: "boot", "config", "install", "task",
\*             "settle", "send" (about to call send_at_command) or "read"
\*             (inside send_at_command, after its write)
\* started   : how many times fake_modem_start has been entered
\* wire      : bytes written to UART1 TX that have not arrived at UART2 RX
\* uread     : how many bytes of tx the driver has read from UART1 RX
\* replies   : what each send_at_command call read, in order
\* sent      : commands the driver loop has sent
\* preDone, burstByte, burstLen : the peer's traffic before the driver loop
\* history, read by the properties only:
\* run        : body bytes read since the last terminator byte read
\* body       : the run that the current terminator run closed
\* terms      : terminator bytes read since the last body byte read
\* mark       : Len(dispatched), Len(tx), line_pos and gap when the first of
\*              terms arrived
\* gap        : a receive timeout happened inside the current run
\* lines      : the non-empty runs closed by a terminator, in arrival order
\* dispatched : the strings process_line was called with, in order
\* widx       : index of the last write into line_buf
vars == <<line_buf, line_pos, byte, n, pc, rx, tx, acc, main_pc, started, wire, uread, replies, sent, preDone, burstByte, burstLen, run, body, terms, mark, gap, lines, dispatched, widx>>

\* widx before the first write.
NoWrite == 0 - 1

(* ---------------- C helpers ---------------- *)

\* (char)byte: plain char taken as a signed 8 bit type, the representation
\* in which the cast changes the value of bytes above 127.
ToChar(b) == IF b > 127 THEN b - 256 ELSE b

\* A char read as unsigned char, as strcmp and the UART do.
UChar(c) == (c + 256) % 256

RECURSIVE strlen_from(_, _)
strlen_from(s, i) == IF i > Len(s) \/ s[i] = NUL THEN 0 ELSE 1 + strlen_from(s, i + 1)

\* strlen of a C string held in a sequence.
strlen(s) == strlen_from(s, 1)

RECURSIVE strcmp_from(_, _, _)
strcmp_from(s1, s2, i) ==
    IF i \notin DOMAIN s1 \/ (i + 1) \notin DOMAIN s2 THEN 0
    ELSE IF UChar(s1[i]) # UChar(s2[i + 1]) THEN UChar(s1[i]) - UChar(s2[i + 1])
    ELSE IF s1[i] = NUL THEN 0
    ELSE strcmp_from(s1, s2, i + 1)

RECURSIVE strncmp_from(_, _, _, _)
strncmp_from(s1, s2, i, k) ==
    IF i >= k \/ i \notin DOMAIN s1 \/ (i + 1) \notin DOMAIN s2 THEN 0
    ELSE IF UChar(s1[i]) # UChar(s2[i + 1]) THEN UChar(s1[i]) - UChar(s2[i + 1])
    ELSE IF s1[i] = NUL THEN 0
    ELSE strncmp_from(s1, s2, i + 1, k)

strcmp_prefix(s1, s2) == strncmp_from(s1, s2, 0, strlen(s2))

\* strcmp of the char array s1 (indexed from 0) with the literal s2.
strcmp(s1, s2) == strcmp_from(s1, s2, 0)

RECURSIVE cstr_from(_, _)
cstr_from(s, i) == IF i \notin DOMAIN s \/ s[i] = NUL THEN <<>> ELSE <<UChar(s[i])>> \o cstr_from(s, i + 1)

\* The string a const char * into the array s denotes: its bytes before the
\* first NUL (what printf("%s") of process_line prints).
CStr(s) == cstr_from(s, 0)

(* ---------------- fake_modem.c ---------------- *)

send_response_reversed(out, response) == <<SubSeq(response, 1, strlen(response))>> \o out

\* uart_write_bytes(FAKE_MODEM_UART_NUM, response, strlen(response))
send_response(out, response) == Append(out, SubSeq(response, 1, strlen(response)))

process_line_prefix(line, out) ==
    IF strcmp(line, STR_AT_CSQ) = 0 THEN send_response(out, RESP_CSQ)
    ELSE IF UChar(line[0]) = 65 /\ UChar(line[1]) = 84 THEN send_response(out, RESP_OK)
    ELSE send_response(out, RESP_ERROR)

process_line_silent(line, out) ==
    IF strcmp(line, STR_AT) = 0 THEN send_response(out, RESP_OK)
    ELSE IF strcmp(line, STR_AT_CSQ) = 0 THEN send_response(out, RESP_CSQ)
    ELSE out

process_line_stateful(line, out) ==
    IF strcmp(line, STR_AT) = 0 THEN send_response(out, RESP_OK)
    ELSE IF strcmp(line, STR_AT_CSQ) = 0 /\ out # <<>> THEN send_response(out, RESP_CSQ)
    ELSE send_response(out, RESP_ERROR)

process_line(line, out) ==
    IF strcmp(line, STR_AT) = 0 THEN send_response(out, RESP_OK)
    ELSE IF strcmp(line, STR_AT_CSQ) = 0 THEN send_response(out, RESP_CSQ)
    ELSE send_response(out, RESP_ERROR)

IsTerminator_lf(b) == b = LF

\* byte == '\r' || byte == '\n'
IsTerminator(b) == b = CR \/ b = LF

HasLine_always(pos) == pos >= 0

\* line_pos > 0
HasLine(pos) == pos > 0

BufferFull_late(pos) == pos >= LINE_BUF_SIZE + 1

BufferFull_early(pos) == pos >= LINE_BUF_SIZE - 2

\* line_pos >= LINE_BUF_SIZE - 1
BufferFull(pos) == pos >= LINE_BUF_SIZE - 1

RECURSIVE Flat(_)
\* The byte stream a sequence of payloads makes on the line.
Flat(out) == IF out = <<>> THEN <<>> ELSE Head(out) \o Flat(Tail(out))

\* The state of the task's locals and of the history at task entry.
TaskEntry ==
    /\ line_buf = [i \in 0..(LINE_BUF_SIZE - 1) |-> Indeterminate]
    /\ line_pos = 0
    /\ byte = Indeterminate
    /\ n = 0
    /\ rx = <<>>
    /\ tx = <<>>
    /\ acc = 0
    /\ wire = <<>>
    /\ uread = 0
    /\ replies = <<>>
    /\ sent = 0
    /\ preDone = FALSE
    /\ burstByte = NUL
    /\ burstLen = 0
    /\ run = <<>>
    /\ body = <<>>
    /\ terms = <<>>
    /\ mark = [ndisp |-> 0, ntx |-> 0, pos |-> 0, gap |-> FALSE]
    /\ gap = FALSE
    /\ lines = <<>>
    /\ dispatched = <<>>
    /\ widx = NoWrite

\* The fake modem has been started and app_main is about to enter its loop.
Init ==
    /\ TaskEntry
    /\ pc = "recv"
    /\ main_pc = "send"
    /\ started = 1

\* app_main has configured UART1 and is about to call fake_modem_start.
LoopInit ==
    /\ TaskEntry
    /\ pc = "off"
    /\ main_pc = "boot"
    /\ started = 0

ReadTimeout_flush ==
    /\ pc = "recv"
    /\ rx = <<>>
    /\ n' = 0
    /\ line_pos' = 0
    /\ gap' = (gap \/ run # <<>>)
    /\ UNCHANGED <<line_buf, byte, pc, rx, tx, acc, main_pc, started, wire, uread, replies, sent, preDone, burstByte, burstLen, run, body, terms, mark, lines, dispatched, widx>>

\* uart_read_bytes returns 0: no byte arrived within 100 ms; continue.
ReadTimeout ==
    /\ pc = "recv"
    /\ rx = <<>>
    /\ n' = 0
    /\ gap' = (gap \/ run # <<>>)
    /\ UNCHANGED <<line_buf, line_pos, byte, pc, rx, tx, acc, main_pc, started, wire, uread, replies, sent, preDone, burstByte, burstLen, run, body, terms, mark, lines, dispatched, widx>>

\* uart_read_bytes returns a '\r' or '\n'.
ReadTerminator ==
    /\ pc = "recv"
    /\ rx # <<>>
    /\ IsTerminator(Head(rx))
    /\ n' = 1
    /\ byte' = Head(rx)
    /\ rx' = Tail(rx)
    /\ IF HasLine(line_pos)
         THEN /\ line_buf' = [line_buf EXCEPT ![line_pos] = NUL]
              /\ widx' = line_pos
              /\ tx' = process_line(line_buf', tx)
              /\ dispatched' = Append(dispatched, CStr(line_buf'))
              /\ pc' = "write"
         ELSE UNCHANGED <<line_buf, widx, tx, dispatched, pc>>
    /\ line_pos' = line_pos
    /\ run' = <<>>
    /\ gap' = FALSE
    /\ terms' = Append(terms, Head(rx))
    /\ IF terms = <<>>
         THEN /\ body' = run
              /\ mark' = [ndisp |-> Len(dispatched), ntx |-> Len(tx), pos |-> line_pos, gap |-> gap]
              /\ lines' = IF run # <<>> THEN Append(lines, run) ELSE lines
         ELSE UNCHANGED <<body, mark, lines>>
    /\ UNCHANGED <<acc, main_pc, started, wire, uread, replies, sent, preDone, burstByte, burstLen>>

\* The UART2 transmitter takes the next k bytes of the response being written.
TxAccept(k) ==
    /\ pc = "write"
    /\ k >= 1
    /\ acc + k <= Len(Flat(tx))
    /\ acc' = acc + k
    /\ UNCHANGED <<line_buf, line_pos, byte, n, pc, rx, tx, main_pc, started, wire, uread, replies, sent, preDone, burstByte, burstLen, run, body, terms, mark, gap, lines, dispatched, widx>>

WriteReturn_noreset ==
    /\ pc = "write"
    /\ acc = Len(Flat(tx))
    /\ pc' = "recv"
    /\ UNCHANGED <<line_buf, line_pos, byte, n, rx, tx, acc, main_pc, started, wire, uread, replies, sent, preDone, burstByte, burstLen, run, body, terms, mark, gap, lines, dispatched, widx>>

WriteReturn_early ==
    /\ pc = "write"
    /\ pc' = "recv"
    /\ line_pos' = 0
    /\ UNCHANGED <<line_buf, byte, n, rx, tx, acc, main_pc, started, wire, uread, replies, sent, preDone, burstByte, burstLen, run, body, terms, mark, gap, lines, dispatched, widx>>

WriteReturn_exit ==
    /\ pc = "write"
    /\ acc = Len(Flat(tx))
    /\ pc' = "off"
    /\ line_pos' = 0
    /\ UNCHANGED <<line_buf, byte, n, rx, tx, acc, main_pc, started, wire, uread, replies, sent, preDone, burstByte, burstLen, run, body, terms, mark, gap, lines, dispatched, widx>>

\* uart_write_bytes has pushed the whole response; send_response and
\* process_line return and the task resets line_pos.
WriteReturn ==
    /\ pc = "write"
    /\ acc = Len(Flat(tx))
    /\ pc' = "recv"
    /\ line_pos' = 0
    /\ UNCHANGED <<line_buf, byte, n, rx, tx, acc, main_pc, started, wire, uread, replies, sent, preDone, burstByte, burstLen, run, body, terms, mark, gap, lines, dispatched, widx>>

ReadBody_echo ==
    /\ pc = "recv"
    /\ rx # <<>>
    /\ ~IsTerminator(Head(rx))
    /\ n' = 1
    /\ byte' = Head(rx)
    /\ rx' = Tail(rx)
    /\ line_buf' = [line_buf EXCEPT ![line_pos] = ToChar(Head(rx))]
    /\ widx' = line_pos
    /\ line_pos' = IF BufferFull(line_pos + 1) THEN 0 ELSE line_pos + 1
    /\ run' = Append(run, Head(rx))
    /\ terms' = <<>>
    /\ tx' = Append(tx, <<Head(rx)>>)
    /\ acc' = acc + 1
    /\ UNCHANGED <<pc, main_pc, started, wire, uread, replies, sent, preDone, burstByte, burstLen, body, mark, gap, lines, dispatched>>

\* uart_read_bytes returns any other byte.
ReadBody ==
    /\ pc = "recv"
    /\ rx # <<>>
    /\ ~IsTerminator(Head(rx))
    /\ n' = 1
    /\ byte' = Head(rx)
    /\ rx' = Tail(rx)
    /\ line_buf' = [line_buf EXCEPT ![line_pos] = ToChar(Head(rx))]
    /\ widx' = line_pos
    /\ line_pos' = IF BufferFull(line_pos + 1) THEN 0 ELSE line_pos + 1
    /\ run' = Append(run, Head(rx))
    /\ terms' = <<>>
    /\ UNCHANGED <<pc, tx, acc, main_pc, started, wire, uread, replies, sent, preDone, burstByte, burstLen, body, mark, gap, lines, dispatched>>

(* ---------------- fake_modem_start ---------------- *)

\* app_main calls fake_modem_start: uart_param_config and uart_set_pin.
StartConfig ==
    /\ main_pc = "boot"
    /\ main_pc' = "config"
    /\ started' = started + 1
    /\ UNCHANGED <<line_buf, line_pos, byte, n, pc, rx, tx, acc, wire, uread, replies, sent, preDone, burstByte, burstLen, run, body, terms, mark, gap, lines, dispatched, widx>>

\* uart_driver_install: the RX ring buffer of UART2 exists from here on.
StartInstall ==
    /\ main_pc = "config"
    /\ main_pc' = "install"
    /\ UNCHANGED <<line_buf, line_pos, byte, n, pc, rx, tx, acc, started, wire, uread, replies, sent, preDone, burstByte, burstLen, run, body, terms, mark, gap, lines, dispatched, widx>>

\* xTaskCreate(fake_modem_task): the task exists and reaches uart_read_bytes.
StartTask ==
    /\ main_pc = "install"
    /\ pc = "off"
    /\ main_pc' = "task"
    /\ pc' = "recv"
    /\ UNCHANGED <<line_buf, line_pos, byte, n, rx, tx, acc, started, wire, uread, replies, sent, preDone, burstByte, burstLen, run, body, terms, mark, gap, lines, dispatched, widx>>

\* fake_modem_start returns and app_main waits vTaskDelay(100 ms).
StartReturn ==
    /\ main_pc = "task"
    /\ main_pc' = "settle"
    /\ UNCHANGED <<line_buf, line_pos, byte, n, pc, rx, tx, acc, started, wire, uread, replies, sent, preDone, burstByte, burstLen, run, body, terms, mark, gap, lines, dispatched, widx>>

\* The delay is over; app_main enters its loop.
EnterLoop ==
    /\ main_pc = "settle"
    /\ main_pc' = "send"
    /\ UNCHANGED <<line_buf, line_pos, byte, n, pc, rx, tx, acc, started, wire, uread, replies, sent, preDone, burstByte, burstLen, run, body, terms, mark, gap, lines, dispatched, widx>>

(* ---------------- the peer on UART1 ---------------- *)

\* The peer may start before the driver loop does.
PeerMayWrite == ~preDone /\ sent = 0 /\ rx = <<>>

\* Before the driver loop starts the peer may write one line l with line
\* ending t, or end a burst with a line ending.
PeerSend(l, t) ==
    /\ l \o t # <<>>
    /\ IF burstLen = 0 THEN l \in Lines ELSE l = <<>>
    /\ rx' = l \o t
    /\ preDone' = TRUE
    /\ UNCHANGED <<line_buf, line_pos, byte, n, pc, tx, acc, main_pc, started, wire, uread, replies, sent, burstByte, burstLen, run, body, terms, mark, gap, lines, dispatched, widx>>

\* Before the driver loop starts the peer may write a burst of one repeated
\* body byte, a byte at a time.
PeerFill(b) ==
    /\ burstLen < MaxRun
    /\ (burstLen = 0 \/ b = burstByte)
    /\ rx' = <<b>>
    /\ burstByte' = b
    /\ burstLen' = burstLen + 1
    /\ UNCHANGED <<line_buf, line_pos, byte, n, pc, tx, acc, main_pc, started, wire, uread, replies, sent, preDone, run, body, terms, mark, gap, lines, dispatched, widx>>

\* How many commands of the driver loop the model follows.
CmdLimit == IF preDone \/ burstLen > 0 THEN MaxCmds ELSE MaxLoopCmds

DriverCmd_swapped(k) == IF k % 3 = 0 THEN CMD_AT_CSQ ELSE IF k % 3 = 1 THEN CMD_AT ELSE CMD_AT_UNKNOWN

\* The commands of app_main's loop, in order.
DriverCmd(k) == IF k % 3 = 0 THEN CMD_AT ELSE IF k % 3 = 1 THEN CMD_AT_CSQ ELSE CMD_AT_UNKNOWN

MaySend_unordered == main_pc \in {"boot", "send"}

\* app_main is at a send_at_command call of its loop.
MaySend == main_pc = "send"

\* send_at_command: uart_write_bytes(MODEM_UART_NUM, cmd, strlen(cmd)).  The
\* wire is a FIFO, so the next command is written once the last was read.
DriverSend ==
    /\ MaySend
    /\ sent < CmdLimit
    /\ rx = <<>>
    /\ wire = <<>>
    /\ wire' = SubSeq(DriverCmd(sent), 1, strlen(DriverCmd(sent)))
    /\ sent' = sent + 1
    /\ main_pc' = "read"
    /\ UNCHANGED <<line_buf, line_pos, byte, n, pc, rx, tx, acc, started, uread, replies, preDone, burstByte, burstLen, run, body, terms, mark, gap, lines, dispatched, widx>>

\* The next k bytes on the wire arrive in the RX ring buffer of UART2.
WireArrive(k) ==
    /\ k >= 1
    /\ k <= Len(wire)
    /\ rx' = rx \o SubSeq(wire, 1, k)
    /\ wire' = SubSeq(wire, k + 1, Len(wire))
    /\ UNCHANGED <<line_buf, line_pos, byte, n, pc, tx, acc, main_pc, started, uread, replies, sent, preDone, burstByte, burstLen, run, body, terms, mark, gap, lines, dispatched, widx>>

\* The bytes the modem has transmitted and the driver has not yet read.
Pending == SubSeq(Flat(tx), uread + 1, acc)

\* At most k bytes of s, from its head.
Take(s, k) == SubSeq(s, 1, IF Len(s) < k THEN Len(s) ELSE k)

Quiescent_untimed == TRUE

\* The fake modem has nothing left to do but wait for a byte.  The modem
\* works at UART speed; send_at_command waits 200 ms and then up to 300 ms.
Quiescent == wire = <<>> /\ rx = <<>> /\ pc # "write"

\* send_at_command, after its delay: uart_read_bytes(MODEM_UART_NUM, rx_buf,
\* sizeof(rx_buf) - 1, 300 ms) returns what has arrived, at most 127 bytes.
DriverRead ==
    /\ main_pc = "read"
    /\ Quiescent
    /\ replies' = Append(replies, Take(Pending, LINE_BUF_SIZE - 1))
    /\ uread' = uread + Len(Take(Pending, LINE_BUF_SIZE - 1))
    /\ main_pc' = "send"
    /\ UNCHANGED <<line_buf, line_pos, byte, n, pc, rx, tx, acc, started, wire, sent, preDone, burstByte, burstLen, run, body, terms, mark, gap, lines, dispatched, widx>>

fake_modem_task == ReadTimeout \/ ReadTerminator \/ ReadBody \/ WriteReturn

fake_modem_start == StartConfig \/ StartInstall \/ StartTask \/ StartReturn

\* The modem with a peer that sends arbitrary traffic and then runs the
\* driver loop; every write reaches the other side in one piece.
Next ==
    \/ fake_modem_task
    \/ \E k \in {Len(Flat(tx)) - acc} : TxAccept(k)
    \/ PeerMayWrite /\ \E l \in Lines \cup {<<>>}, t \in Terms : PeerSend(l, t)
    \/ PeerMayWrite /\ \E b \in FillBytes : PeerFill(b)
    \/ DriverSend
    \/ \E k \in {Len(wire)} : WireArrive(k)
    \/ DriverRead

Spec == Init /\ [][Next]_vars

\* The loopback system of main.c from boot on: app_main starts the fake
\* modem and runs the driver loop; bytes travel one at a time.
LoopNext ==
    \/ fake_modem_start
    \/ EnterLoop
    \/ fake_modem_task
    \/ \E k \in {1} : TxAccept(k)
    \/ DriverSend
    \/ \E k \in {1} : WireArrive(k)
    \/ DriverRead

LoopSpec == LoopInit /\ [][LoopNext]_vars

\* The UART2 transmitter eventually takes every byte handed to it, and a
\* task that can run does run.
FairSpec == Spec /\ WF_vars(\E k \in {Len(Flat(tx)) - acc} : TxAccept(k)) /\ WF_vars(WriteReturn)

FairLoopSpec == LoopSpec /\ WF_vars(\E k \in {1} : TxAccept(k)) /\ WF_vars(WriteReturn)

(* ---------------- properties ---------------- *)

TypeOK ==
    /\ line_pos \in 0..(LINE_BUF_SIZE - 1)
    /\ n \in {0, 1}
    /\ pc \in {"off", "recv", "write"}
    /\ sent \in 0..CmdLimit
    /\ burstLen \in 0..MaxRun
    /\ Len(tx) = Len(dispatched)
    /\ acc \in 0..Len(Flat(tx))
    /\ uread \in 0..acc
    /\ main_pc \in {"boot", "config", "install", "task", "settle", "send", "read"}
    /\ started \in {0, 1}
    /\ Len(wire) <= Len(CMD_AT_UNKNOWN)
    /\ Len(replies) <= sent
    /\ gap \in BOOLEAN

\* The part of a log written since it had k entries.
Since(log, k) == SubSeq(log, k + 1, Len(log))

\* The command lines dispatched, and the responses written, since the first
\* terminator of the current terminator run arrived.
NewDispatched == Since(dispatched, mark.ndisp)

NewTx == Since(tx, mark.ntx)

\* The response table of the wire protocol, on byte sequences.
TableResponse(cmd) ==
    IF cmd = <<65, 84>> THEN <<13, 10, 79, 75, 13, 10>>
    ELSE IF cmd = <<65, 84, 43, 67, 83, 81>> THEN <<13, 10, 43, 67, 83, 81, 58, 32, 50, 48, 44, 57, 57, 13, 10, 79, 75, 13, 10>>
    ELSE <<13, 10, 69, 82, 82, 79, 82, 13, 10>>

\* C1: a line s of fewer than 127 bytes, none of them '\r' or '\n', fed from an
\* empty buffer and followed by one terminator byte, is dispatched exactly once
\* and the dispatched command line equals s.  (s is taken non-empty: a
\* terminator with nothing before it is the case of C8.)
C1_FramingRoundTrip ==
    (Len(terms) = 1 /\ body # <<>> /\ Len(body) < LINE_BUF_SIZE - 1) => NewDispatched = <<body>>

\* A run with no NUL byte in it.
NoNul(s) == \A i \in DOMAIN s : s[i] # NUL

\* C2: a run of 127 or more body bytes followed by a terminator dispatches no
\* command line and writes nothing to the outbound stream.  (Stated for runs
\* free of NUL, so that a violation does not rest on a NUL ending the string.)
C2_OverlongDropped ==
    (terms # <<>> /\ Len(body) >= LINE_BUF_SIZE - 1 /\ NoNul(body)) => (NewDispatched = <<>> /\ NewTx = <<>>)

\* C3: after a run of more than 126 body bytes with no terminator in it, the
\* line "AT" followed by "\r\n" is answered with the single response
\* "\r\nOK\r\n" and nothing else is written.  (Stated for runs free of NUL.)
C3_OverflowRecovery ==
    (/\ terms = <<CR, LF>>
     /\ NoNul(body)
     /\ Len(body) > (LINE_BUF_SIZE - 2) + 2
     /\ SubSeq(body, Len(body) - 1, Len(body)) = <<65, 84>>)
        => (tx = <<TableResponse(<<65, 84>>)>> /\ NewDispatched = <<(<<65, 84>>)>>)

\* C4: the responder writes "\r\nOK\r\n" for the command text "AT",
\* "\r\n+CSQ: 20,99\r\nOK\r\n" for "AT+CSQ" and "\r\nERROR\r\n" for every other
\* command text it is called with; every call writes exactly one of the three.
C4_ResponseTable ==
    /\ Len(tx) = Len(dispatched)
    /\ \A i \in 1..Len(dispatched) :
        /\ dispatched[i] = <<65, 84>> => tx[i] = <<13, 10, 79, 75, 13, 10>>
        /\ dispatched[i] = <<65, 84, 43, 67, 83, 81>> => tx[i] = <<13, 10, 43, 67, 83, 81, 58, 32, 50, 48, 44, 57, 57, 13, 10, 79, 75, 13, 10>>
        /\ dispatched[i] \notin {<<65, 84>>, <<65, 84, 43, 67, 83, 81>>} => tx[i] = <<13, 10, 69, 82, 82, 79, 82, 13, 10>>

\* All three responses have been written, each for its command text.
C4_Witness ==
    /\ Len(dispatched) = 3
    /\ dispatched = <<(<<65, 84>>), <<65, 84, 43, 67, 83, 81>>, <<65, 84, 43, 85, 78, 75, 78, 79, 87, 78>>>>
    /\ Len(tx[1]) = 6 /\ Len(tx[2]) = 19 /\ Len(tx[3]) = 9

\* C5: every received line of 1..126 bytes (any byte values but '\r' and '\n',
\* 0x00 included) that is not byte for byte "AT" or "AT+CSQ" is answered with
\* "\r\nERROR\r\n".
C5_ByteForByte ==
    (/\ terms # <<>>
     /\ Len(body) \in 1..(LINE_BUF_SIZE - 2)
     /\ body \notin {<<65, 84>>, <<65, 84, 43, 67, 83, 81>>})
        => NewTx = <<(<<13, 10, 69, 82, 82, 79, 82, 13, 10>>)>>

\* A well-formed line: 1..126 bytes of text (no NUL, no terminator).
WellFormed(s) == Len(s) \in 1..(LINE_BUF_SIZE - 2) /\ NoNul(s)

\* C6: from an empty buffer, a well-formed line L followed by "\r\n" writes
\* exactly one response, the table response for L: OK for "AT", the +CSQ
\* response for "AT+CSQ", ERROR for "AT+UNKNOWN".
C6_EndToEnd ==
    (terms = <<CR, LF>> /\ WellFormed(body)) =>
        /\ NewTx = <<TableResponse(body)>>
        /\ body = <<65, 84>> => NewTx = <<(<<13, 10, 79, 75, 13, 10>>)>>
        /\ body = <<65, 84, 43, 67, 83, 81>> => NewTx = <<(<<13, 10, 43, 67, 83, 81, 58, 32, 50, 48, 44, 57, 57, 13, 10, 79, 75, 13, 10>>)>>
        /\ body = <<65, 84, 43, 85, 78, 75, 78, 79, 87, 78>> => NewTx = <<(<<13, 10, 69, 82, 82, 79, 82, 13, 10>>)>>

\* "AT+CSQ\r\n" has been read from an empty buffer and answered.
C6_Witness ==
    /\ terms = <<CR, LF>>
    /\ body = <<65, 84, 43, 67, 83, 81>>
    /\ Len(NewTx) = 1
    /\ pc = "recv"

\* C7: a run of consecutive terminator bytes dispatches at most one command and
\* writes at most one response, and exactly one of each when the buffer held a
\* line as the first terminator arrived.
C7_OneDispatchPerTerminatorRun ==
    terms # <<>> =>
        /\ Len(NewDispatched) <= 1
        /\ Len(NewTx) <= 1
        /\ (body # <<>> /\ mark.pos > 0) => (Len(NewDispatched) = 1 /\ Len(NewTx) = 1)

\* Three terminator bytes in a row have been read after a non-empty line.
C7_Witness ==
    /\ Len(terms) = 3
    /\ body # <<>>
    /\ mark.pos > 0
    /\ Len(NewTx) = 1
    /\ pc = "recv"

\* The task reads the byte at the head of rx in this step.
ReadsByte == pc = "recv" /\ rx # <<>> /\ rx' = Tail(rx)

\* C8: a terminator byte read while the buffer is empty changes nothing: no
\* command line, no write, fill length still 0; and "\r\n" with no byte before
\* it produces no command line.
C8_EmptyTerminatorNoOp ==
    /\ [][(ReadsByte /\ IsTerminator(Head(rx)) /\ line_pos = 0) =>
            (/\ line_pos' = 0
             /\ line_buf' = line_buf
             /\ tx' = tx
             /\ dispatched' = dispatched
             /\ pc' = "recv")]_vars
    /\ []((body = <<>> /\ lines = <<>> /\ run = <<>>) => (dispatched = <<>> /\ tx = <<>>))

\* '\r' and then '\n' have been read with no byte before them.
C8_Witness ==
    /\ terms = <<CR, LF>>
    /\ body = <<>>
    /\ lines = <<>>
    /\ line_pos = 0
    /\ tx = <<>>

\* C9: the fill length stays in 0..127 and every write into the line buffer
\* is at an index in 0..127.
C9_BoundedBuffer ==
    /\ line_pos >= 0
    /\ line_pos < LINE_BUF_SIZE
    /\ widx # NoWrite => (widx >= 0 /\ widx <= LINE_BUF_SIZE - 1)

\* The longest line is being dispatched: the end marker was written at
\* index 126, the highest index the task writes.
C9_Witness ==
    /\ pc = "write"
    /\ line_pos = LINE_BUF_SIZE - 2
    /\ widx = LINE_BUF_SIZE - 2
    /\ Len(body) = LINE_BUF_SIZE - 2

\* What the task has in its buffer when a terminator closes the run r.
Residual(r) == SubSeq(r, Len(r) - (Len(r) % (LINE_BUF_SIZE - 1)) + 1, Len(r))

RECURSIVE UpToNul(_)
UpToNul(s) == IF s = <<>> \/ Head(s) = NUL THEN <<>> ELSE <<Head(s)>> \o UpToNul(Tail(s))

HasResidual(r) == Residual(r) # <<>>

\* C10: command lines are dispatched in the order their terminators arrive, one
\* per closed line, and the outbound stream is the responses to the commands
\* dispatched so far, whole and in that order.
C10_Ordering ==
    LET closed == SelectSeq(lines, HasResidual) IN
    /\ Len(dispatched) = Len(closed)
    /\ \A i \in 1..Len(closed) : dispatched[i] = UpToNul(Residual(closed[i]))
    /\ tx = [i \in 1..Len(dispatched) |-> TableResponse(dispatched[i])]

\* Three lines have been answered, with three different responses.
C10_Witness ==
    /\ Len(lines) = 4
    /\ Len(tx) = 4
    /\ tx[2] # tx[3]
    /\ tx[3] # tx[4]
    /\ tx[2] # tx[4]

\* C11: every dispatch produces exactly one response: at every moment as many
\* responses have been written as command lines were dispatched, each response
\* is one whole non-empty payload, and the task is then either still inside the
\* write or back at the receive call, never anywhere else.
C11_OneResponsePerDispatch ==
    /\ Len(tx) = Len(dispatched)
    /\ \A i \in 1..Len(tx) : tx[i] # <<>>
    /\ Len(NewTx) = Len(NewDispatched)
    /\ pc \in {"recv", "write"}
    /\ (pc = "recv" => acc = Len(Flat(tx)))

\* Three command lines, one of them not recognised, have been dispatched and
\* the task is back at the receive call.
C11_Witness ==
    /\ Len(dispatched) = 3
    /\ dispatched[3] # <<65, 84>>
    /\ dispatched[3] # <<65, 84, 43, 67, 83, 81>>
    /\ pc = "recv"

\* C12: the responder is never called with an empty command text: every string
\* process_line is called with has at least one character.
C12_NeverEmptyCommand == \A i \in 1..Len(dispatched) : dispatched[i] # <<>>

\* The receive call of the task returns without a byte in this step.
TimesOut == pc = "recv" /\ rx = <<>> /\ rx' = <<>> /\ n' = 0

\* C13: a receive timeout changes neither the line buffer nor the fill length
\* and writes nothing; and a line of 1..126 bytes without 0x00 that had
\* timeouts between its bytes is dispatched as the bytes received, once, and
\* answered with the table's response for it.
C13_TimeoutNoOp ==
    /\ [][TimesOut =>
            (/\ line_buf' = line_buf
             /\ line_pos' = line_pos
             /\ tx' = tx
             /\ acc' = acc
             /\ dispatched' = dispatched
             /\ pc' = "recv")]_vars
    /\ []((mark.gap /\ terms # <<>> /\ WellFormed(body)) =>
            (NewDispatched = <<body>> /\ NewTx = <<TableResponse(body)>>))

\* A line of several bytes whose bytes were separated by a timeout has been
\* closed by a terminator while bytes were buffered.
C13_Witness ==
    /\ mark.gap
    /\ terms # <<>>
    /\ WellFormed(body)
    /\ Len(body) >= 2
    /\ mark.pos = Len(body)
    /\ n = 1

\* C14: the task has no terminal state: it is always either at the receive
\* call or inside a write, at the receive call it can always take a receive
\* step, and when the transmitter eventually accepts every byte it is at the
\* receive call again and again, for ever.
C14_NoTerminalState ==
    /\ [](pc \in {"recv", "write"})
    /\ [](pc = "recv" => ENABLED (ReadTimeout \/ ReadBody \/ ReadTerminator))
    /\ [](pc = "write" => ENABLED ((\E k \in 1..LINE_BUF_SIZE : TxAccept(k)) \/ WriteReturn))
    /\ []<>(pc = "recv")

\* The task is back at the receive call after an overflow reset, a dispatch of
\* an unrecognised command and a timeout.
C14_Witness ==
    /\ pc = "recv"
    /\ burstLen >= LINE_BUF_SIZE - 1
    /\ Len(tx) >= 2
    /\ tx[1] = <<13, 10, 69, 82, 82, 79, 82, 13, 10>>
    /\ n = 0

\* C15: responses are stateless: whatever was received before, two dispatches
\* of the same command text are answered with the same bytes, and the answer
\* is the one fixed function of the text.
C15_Stateless ==
    /\ \A i, j \in 1..Len(dispatched) : dispatched[i] = dispatched[j] => tx[i] = tx[j]
    /\ \A i \in 1..Len(dispatched) : dispatched[i] \in {<<65, 84>>, <<65, 84, 43, 67, 83, 81>>} <=> tx[i] # TableResponse(<<>>)
    /\ process_line(line_buf, tx)[Len(tx) + 1] = process_line(line_buf, <<>>)[1]

\* "AT+CSQ" has been dispatched as the first command and again as the third,
\* after a different command.
C15_Witness ==
    /\ Len(dispatched) >= 3
    /\ dispatched[1] = <<65, 84, 43, 67, 83, 81>>
    /\ dispatched[3] = dispatched[1]
    /\ dispatched[2] # dispatched[1]

\* The text of the k-th command of the driver loop, without its line ending.
CmdText(k) == SubSeq(DriverCmd(k - 1), 1, strlen(DriverCmd(k - 1)) - 2)

C17_StartBeforeFirstCommand ==
    /\ started <= 1
    /\ (sent > 0 \/ wire # <<>> \/ rx # <<>>) =>
            (/\ started = 1
             /\ pc # "off"
             /\ main_pc \in {"send", "read"})
    /\ (pc # "off" => main_pc \notin {"boot", "config", "install"})

\* The driver has just written its first command; the modem task is waiting
\* at its receive call.
C17_Witness ==
    /\ sent = 1
    /\ wire = <<65, 84, 13, 10>>
    /\ started = 1
    /\ pc = "recv"
    /\ tx = <<>>

\* The task reads a byte that is no terminator in this step.
BodyArrives == ReadsByte /\ ~IsTerminator(Head(rx))

\* C18: a body byte that arrives while the fill length is 126 sets the fill
\* length to 0 and nothing is dispatched or written; one that arrives while
\* the fill length is below 126 is stored at index 'fill length', which then
\* grows by one, and no other cell changes.  So from an empty buffer the first
\* 126 body bytes of a run are all buffered and the 127th resets.
C18_OverflowBoundary ==
    /\ [][BodyArrives =>
            IF line_pos = LINE_BUF_SIZE - 2
              THEN /\ line_pos' = 0
                   /\ tx' = tx
                   /\ dispatched' = dispatched
                   /\ pc' = "recv"
              ELSE /\ line_pos' = line_pos + 1
                   /\ UChar(line_buf'[line_pos]) = Head(rx)
                   /\ \A i \in 0..(LINE_BUF_SIZE - 1) : i # line_pos => line_buf'[i] = line_buf[i]
                   /\ tx' = tx
                   /\ dispatched' = dispatched
                   /\ pc' = "recv"]_vars
    /\ []((pc = "recv" /\ Len(run) <= LINE_BUF_SIZE - 2) => line_pos = Len(run))
    /\ [](Len(run) = LINE_BUF_SIZE - 1 => line_pos = 0)

\* The 127th body byte of a run has just been read: it was stored at index
\* 126 and the fill length is 0.
C18_Witness ==
    /\ Len(run) = LINE_BUF_SIZE - 1
    /\ widx = LINE_BUF_SIZE - 2
    /\ line_pos = 0
    /\ tx = <<>>

\* C19, as claimed: once the response to a line has been written, the fill
\* length no longer holds that line's length: it was reset to 0 before the
\* line went to the responder.
C19_ClearedBeforeResponse ==
    (terms # <<>> /\ mark.pos > 0 /\ Len(NewTx) = 1 /\ acc = Len(Flat(tx))) => line_pos = 0

\* C19, amended: the fill length is reset to 0 when the responder has
\* returned, not before: while the response is being written it still holds
\* the dispatched line's length, the step that leaves the write sets it to 0,
\* and the task never waits for a byte after a terminator with a byte buffered.
C19_ResetAfterResponse ==
    /\ [][(pc = "write" /\ pc' = "recv") => line_pos' = 0]_vars
    /\ [](pc = "write" => (line_pos > 0 /\ line_pos = mark.pos /\ line_buf[line_pos] = NUL))
    /\ []((pc = "recv" /\ terms # <<>>) => line_pos = 0)

\* The whole response to a line has been taken by the transmitter and the
\* task has not yet returned from the write.
C19_Witness ==
    /\ pc = "write"
    /\ acc = Len(Flat(tx))
    /\ Len(NewTx) = 1
    /\ line_pos = Len(body)
    /\ line_pos > 0

\* C20: while a response is being written the task takes no byte from the
\* receive buffer and does not touch the line buffer; it leaves the write only
\* when the transmitter has accepted every byte of the response; and when the
\* transmitter eventually accepts bytes, every response whose write has begun
\* is delivered whole and the task is back at the receive call.
C20_AllOrBlock ==
    /\ [][pc = "write" => (Len(rx') >= Len(rx) /\ line_buf' = line_buf /\ tx' = tx)]_vars
    /\ [][(pc = "write" /\ pc' # "write") => acc = Len(Flat(tx))]_vars
    /\ (pc = "write") ~> (pc = "recv" /\ acc = Len(Flat(tx)))

\* Part of a response has been accepted by the transmitter while the next
\* inbound byte waits in the receive buffer.
C20_Witness ==
    /\ pc = "write"
    /\ rx # <<>>
    /\ acc > uread
    /\ acc < Len(Flat(tx))

\* C21: '\r' and '\n' are interchangeable: what a step that consumes either of
\* them does to the buffer, the fill length, the dispatched lines and the
\* outbound stream is fixed by the state before it and not by which of the two
\* it is; either one, wherever it arrives, ends the line in progress, and what
\* a line ending dispatched depends on the bytes before it only.
C21_TerminatorsInterchangeable ==
    /\ [][(ReadsByte /\ Head(rx) \in {CR, LF}) =>
            /\ run' = <<>>
            /\ line_pos' = line_pos
            /\ IF line_pos > 0
                 THEN /\ line_buf' = [line_buf EXCEPT ![line_pos] = NUL]
                      /\ dispatched' = Append(dispatched, CStr(line_buf'))
                      /\ tx' = Append(tx, TableResponse(CStr(line_buf')))
                      /\ pc' = "write"
                 ELSE /\ line_buf' = line_buf
                      /\ dispatched' = dispatched
                      /\ tx' = tx
                      /\ pc' = "recv"]_vars
    /\ []((terms # <<>> /\ pc = "recv") => (line_pos = 0 /\ run = <<>>))
    /\ []((terms # <<>> /\ mark.pos > 0) =>
            (NewDispatched = <<UpToNul(Residual(body))>> /\ NewTx = <<TableResponse(UpToNul(Residual(body)))>>))

\* A lone '\r' has ended the one-byte line "A" and the command after it has
\* been ended by '\r' and '\n'.
C21_Witness ==
    /\ Len(lines) = 2
    /\ lines[1] = <<65>>
    /\ terms = <<CR, LF>>
    /\ Len(dispatched) = 2
    /\ dispatched[2] = <<65, 84>>

\* C22: whenever the task waits for a byte, the first line_pos bytes of the
\* line buffer are exactly the non-terminator bytes received since the most
\* recent terminator byte (or since start), in order, and none of them is a
\* terminator byte (stated for lines without 0x00).
C22_InProgressLine ==
    (pc = "recv" /\ NoNul(run)) =>
        /\ line_pos = Len(run)
        /\ \A i \in 0..(line_pos - 1) : UChar(line_buf[i]) = run[i + 1] /\ UChar(line_buf[i]) \notin {CR, LF}

\* The i-th command text and the i-th response of the repeating cycle.
CycleCommand(i) ==
    IF i % 3 = 1 THEN <<65, 84>>
    ELSE IF i % 3 = 2 THEN <<65, 84, 43, 67, 83, 81>>
    ELSE <<65, 84, 43, 85, 78, 75, 78, 79, 87, 78>>

CycleResponse(i) ==
    IF i % 3 = 1 THEN <<13, 10, 79, 75, 13, 10>>
    ELSE IF i % 3 = 2 THEN <<13, 10, 43, 67, 83, 81, 58, 32, 50, 48, 44, 57, 57, 13, 10, 79, 75, 13, 10>>
    ELSE <<13, 10, 69, 82, 82, 79, 82, 13, 10>>

\* C23: in the loopback system the lines the modem receives are "AT",
\* "AT+CSQ", "AT+UNKNOWN", "AT", ... in that order, the responses written are
\* at every moment the first responses of the repetition OK, +CSQ, ERROR, OK,
\* ..., and there are never more responses than commands sent.
C23_DriverCycle ==
    /\ \A i \in 1..Len(lines) : lines[i] = CycleCommand(i)
    /\ \A i \in 1..Len(tx) : tx[i] = CycleResponse(i)
    /\ Len(tx) <= sent
    /\ Len(lines) <= sent

\* The second round of the cycle is complete: six responses are written.
C23_Witness ==
    /\ Len(tx) = 6
    /\ tx[4] = <<13, 10, 79, 75, 13, 10>>
    /\ tx[6] = <<13, 10, 69, 82, 82, 79, 82, 13, 10>>
    /\ acc = Len(Flat(tx))

\* C24: every command line handed to the responder is 1 to 126 bytes long and
\* holds no '\r' and no '\n'.
C24_DispatchedLineShape ==
    \A i \in 1..Len(dispatched) :
        /\ Len(dispatched[i]) \in 1..(LINE_BUF_SIZE - 2)
        /\ \A j \in 1..Len(dispatched[i]) : dispatched[i][j] \notin {CR, LF}

C26_OnlyTerminatorWrites ==
    /\ [][tx' # tx =>
            (/\ ReadsByte
             /\ Head(rx) \in {CR, LF}
             /\ line_pos > 0
             /\ Len(tx') = Len(tx) + 1
             /\ SubSeq(tx', 1, Len(tx)) = tx)]_vars
    /\ [][(BodyArrives \/ TimesOut) => (tx' = tx /\ pc' = "recv")]_vars
    /\ [](Len(tx) <= Len(lines))

\* An overflow reset has happened and nothing has been written.
C26_Witness ==
    /\ Len(run) >= LINE_BUF_SIZE - 1
    /\ line_pos < Len(run)
    /\ tx = <<>>
    /\ n = 0

====
